---- MODULE Spec2Model ----
(***************************************************************************)
(* Model of moon_calculator.py: the phase classifier (moon_phase_name),    *)
(* the illumination approximation (moon_illumination_pct), the disc        *)
(* renderer (unicode_moon) and the orchestrator (main).                    *)
(*                                                                         *)
(* Real numbers.  Ages are exact fixed-point numbers.  The unit is         *)
(* 1/(12 * 10^8) day, so that whole days, the synodic month 29.53058867    *)
(* and its halves, quarters, sixths and twelfths are all whole numbers of  *)
(* units.  A number is a pair <<hi, lo>> with value hi * 10^9 + lo and     *)
(* 0 <= lo < 10^9 (two limbs, because one synodic month is 35436706404     *)
(* units).  Fractions and grid coordinates are integers in thousandths.    *)
(* Arithmetic is exact: binary floating-point rounding is not modelled.    *)
(***************************************************************************)
EXTENDS Integers, Sequences, FiniteSets, TLC

(***************************************************************************)
(* Bounds of the model                                                     *)
(***************************************************************************)
MaxPeriods == 2

(***************************************************************************)
(* Exact two-limb arithmetic                                               *)
(***************************************************************************)
Base == 10 * 10 * 10 * 10 * 10 * 10 * 10 * 10 * 10

Norm(n) == <<n[1] + (n[2] \div Base), n[2] % Base>>

Zero == <<0, 0>>

Add(a, b) == Norm(<<a[1] + b[1], a[2] + b[2]>>)

Sub(a, b) == Norm(<<a[1] - b[1], a[2] - b[2]>>)

Neg(a) == Norm(<<0 - a[1], 0 - a[2]>>)

Less(a, b) == a[1] < b[1] \/ (a[1] = b[1] /\ a[2] < b[2])

Leq(a, b) == a = b \/ Less(a, b)

\* k * a for a small integer k (|k| < 1000): lo is split at 10^5 so that no
\* partial product leaves the integer range.
Times(k, a) ==
    LET upper == k * (a[2] \div 100000)
        lower == k * (a[2] % 100000)
    IN  Norm(<<k * a[1] + (upper \div 10000),
               (upper % 10000) * 100000 + lower>>)

\* The decimal literal d.ffffffff (f counts 10^-8 day): 1 day is 12 * 10^8
\* units, that is <<1, 2 * 10^8>>.
Dec(d, f) ==
    Norm(<<d + ((2 * d) \div 10),
           ((2 * d) % 10) * (Base \div 10) + 12 * f>>)

\* Exact division of a non-negative number by a small positive integer n
\* (n <= 12), by long division over the limbs.
DivSmall(a, n) ==
    LET r  == a[1] % n
        hi == r * 10000 + (a[2] \div 100000)
        r1 == hi % n
        lo == r1 * 100000 + (a[2] % 100000)
    IN  <<a[1] \div n, (hi \div n) * 100000 + (lo \div n)>>

(***************************************************************************)
(* Configuration                                                           *)
(***************************************************************************)
SYNODIC_MONTH == Dec(29, 53058867)

(***************************************************************************)
(* Python's float remainder  x % y  for y > 0: the C fmod (truncated,      *)
(* sign of the dividend), then the divisor is added when the remainder is  *)
(* non-zero and its sign differs from the divisor's.                       *)
(***************************************************************************)
RECURSIVE fmod(_, _)
fmod(x, y) ==
    IF Less(x, Zero) THEN Neg(fmod(Neg(x), y))
    ELSE IF Less(x, y) THEN x
    ELSE fmod(Sub(x, y), y)

PyMod_truncated(x, y) == fmod(x, y)

PyMod(x, y) ==
    LET mod == fmod(x, y)
    IN  IF mod # Zero /\ Less(mod, Zero) THEN Add(mod, y) ELSE mod

(***************************************************************************)
(* moon_phase_name                                                         *)
(***************************************************************************)
PhaseOf_closedBounds(a) ==
    IF Leq(a, Dec(1, 0)) THEN "New Moon"
    ELSE IF Leq(a, Dec(6, 0)) THEN "Waxing Crescent"
    ELSE IF Leq(a, Dec(8, 0)) THEN "First Quarter"
    ELSE IF Leq(a, Dec(13, 0)) THEN "Waxing Gibbous"
    ELSE IF Leq(a, Dec(16, 0)) THEN "Full Moon"
    ELSE IF Leq(a, Dec(21, 0)) THEN "Waning Gibbous"
    ELSE IF Leq(a, Dec(23, 0)) THEN "Last Quarter"
    ELSE IF Leq(a, Dec(29, 0)) THEN "Waning Crescent"
    ELSE "New Moon"

PhaseOf_noWrap(a) ==
    IF Less(a, Dec(1, 0)) THEN "New Moon"
    ELSE IF Less(a, Dec(6, 0)) THEN "Waxing Crescent"
    ELSE IF Less(a, Dec(8, 0)) THEN "First Quarter"
    ELSE IF Less(a, Dec(13, 0)) THEN "Waxing Gibbous"
    ELSE IF Less(a, Dec(16, 0)) THEN "Full Moon"
    ELSE IF Less(a, Dec(21, 0)) THEN "Waning Gibbous"
    ELSE IF Less(a, Dec(23, 0)) THEN "Last Quarter"
    ELSE "Waning Crescent"

\* The if/elif chain on the reduced age a.
PhaseOf(a) ==
    IF Less(a, Dec(1, 0)) THEN "New Moon"
    ELSE IF Less(a, Dec(6, 0)) THEN "Waxing Crescent"
    ELSE IF Less(a, Dec(8, 0)) THEN "First Quarter"
    ELSE IF Less(a, Dec(13, 0)) THEN "Waxing Gibbous"
    ELSE IF Less(a, Dec(16, 0)) THEN "Full Moon"
    ELSE IF Less(a, Dec(21, 0)) THEN "Waning Gibbous"
    ELSE IF Less(a, Dec(23, 0)) THEN "Last Quarter"
    ELSE IF Less(a, Dec(29, 0)) THEN "Waning Crescent"
    ELSE "New Moon"

moon_phase_name(age_days) == PhaseOf(PyMod(age_days, SYNODIC_MONTH))

(***************************************************************************)
(* moon_illumination_pct.  The model evaluates the cosine at the phase     *)
(* angles where it is rational: multiples of pi/6 other than the odd ones  *)
(* that are no multiple of pi/2.  Such an angle is age_days/SYNODIC_MONTH  *)
(* = k/12 turns.  Values are in thousandths (1.0 is 1000).                 *)
(***************************************************************************)
MaxTwelfths == 48

RationalTurns == {k \in (0 - MaxTwelfths)..MaxTwelfths : k % 12 \in {0, 2, 3, 4, 6, 8, 9, 10}}

\* 12 * (age_days / SYNODIC_MONTH)
TurnTwelfths(age_days) ==
    CHOOSE k \in (0 - MaxTwelfths)..MaxTwelfths :
        Times(k, DivSmall(SYNODIC_MONTH, 12)) = age_days

\* 1000 * cos(2 * pi * k / 12)
cos(k) ==
    CASE k % 12 = 0 -> 1000
      [] k % 12 \in {2, 10} -> 500
      [] k % 12 \in {3, 9} -> 0
      [] k % 12 \in {4, 8} -> 0 - 500
      [] k % 12 = 6 -> 0 - 1000

moon_illumination_pct_signSlip(age_days) ==
    LET phase_angle == TurnTwelfths(age_days)
        frac == (1000 + cos(phase_angle)) \div 2
    IN  frac * 100

moon_illumination_pct(age_days) ==
    LET phase_angle == TurnTwelfths(age_days)
        frac == (1000 - cos(phase_angle)) \div 2
    IN  frac * 100

(***************************************************************************)
(* unicode_moon.  The result is the returned string as a sequence of       *)
(* characters: glyphs and line breaks.  illum_frac, b, term, t1 and t2 are *)
(* in thousandths.  With W = width - 1 and H = height - 1,                 *)
(*   x = xn / W, xn = 2i - W;   y = yn / H, yn = 2j - H;                   *)
(*   y_adj = 1.15 * y = 23 * yn / (20 * H)                                 *)
(* and every comparison is cleared of its (positive) denominators.         *)
(***************************************************************************)
FULL == "FULL"
EDGE2 == "EDGE2"
EDGE1 == "EDGE1"
DARK == "DARK"
OUT == "OUT"
NEWLINE == "NEWLINE"

Glyphs == {FULL, EDGE2, EDGE1, DARK, OUT}

t1 == 25
t2 == 70

DefaultWidth == 23
DefaultHeight == 13

ZeroDivisionError == "ZeroDivisionError"

Max(p, q) == IF p > q THEN p ELSE q
Min(p, q) == IF p < q THEN p ELSE q
Abs(p) == IF p < 0 THEN 0 - p ELSE p

Clamp(illum_frac) == Max(0, Min(1000, illum_frac))

\* x * x + y_adj * y_adj > 1.0
Outside(i, j, width, height) ==
    LET W  == width - 1
        H  == height - 1
        xn == 2 * i - W
        yn == 2 * j - H
    IN  400 * xn * xn * H * H + 529 * yn * yn * W * W > 400 * W * W * H * H

Shade_flippedOffset(i, illum_frac, waxing, width) ==
    LET W     == width - 1
        b     == 2 * Clamp(illum_frac) - 1000
        term  == IF waxing THEN b ELSE 0 - b
        dist  == 1000 * (2 * i - W) - term * W
        lit   == IF waxing THEN dist > 0 ELSE dist < 0
        adist == Abs(dist)
    IN  IF lit
        THEN IF adist < t1 * W THEN EDGE1
             ELSE IF adist < t2 * W THEN EDGE2
             ELSE FULL
        ELSE IF adist < t2 * W THEN EDGE1
             ELSE DARK

Shade_sameSide(i, illum_frac, waxing, width) ==
    LET W     == width - 1
        b     == 1000 - 2 * Clamp(illum_frac)
        term  == IF waxing THEN b ELSE 0 - b
        dist  == 1000 * (2 * i - W) - term * W
        lit   == dist > 0
        adist == Abs(dist)
    IN  IF lit
        THEN IF adist < t1 * W THEN EDGE1
             ELSE IF adist < t2 * W THEN EDGE2
             ELSE FULL
        ELSE IF adist < t2 * W THEN EDGE1
             ELSE DARK

\* The glyph of an inside cell; dist and adist are scaled by 1000 * W.
Shade(i, illum_frac, waxing, width) ==
    LET W     == width - 1
        b     == 1000 - 2 * Clamp(illum_frac)
        term  == IF waxing THEN b ELSE 0 - b
        dist  == 1000 * (2 * i - W) - term * W
        lit   == IF waxing THEN dist > 0 ELSE dist < 0
        adist == Abs(dist)
    IN  IF lit
        THEN IF adist < t1 * W THEN EDGE1
             ELSE IF adist < t2 * W THEN EDGE2
             ELSE FULL
        ELSE IF adist < t2 * W THEN EDGE1
             ELSE DARK

\* One pass of the inner loop: "".join(row_chars) for row j.
RowChars_skipOutside(j, illum_frac, waxing, width, height) ==
    LET inside == {i \in 0..(width - 1) : ~Outside(i, j, width, height)}
        RECURSIVE build(_)
        build(i) ==
            IF i >= width THEN <<>>
            ELSE (IF i \in inside THEN <<Shade(i, illum_frac, waxing, width)>> ELSE <<>>)
                     \o build(i + 1)
    IN  build(0)

RowChars(j, illum_frac, waxing, width, height) ==
    [c \in 1..Max(0, width) |->
        IF Outside(c - 1, j, width, height)
        THEN OUT
        ELSE Shade(c - 1, illum_frac, waxing, width)]

\* "\n".join(rows)
RECURSIVE JoinLines(_)
JoinLines(rows) ==
    IF Len(rows) = 0 THEN <<>>
    ELSE IF Len(rows) = 1 THEN rows[1]
    ELSE rows[1] \o <<NEWLINE>> \o JoinLines(Tail(rows))

\* The divisions 2.0 * j / (height - 1) and 2.0 * i / (width - 1) raise
\* when they are reached with a zero divisor.
RaisesZeroDivision(width, height) ==
    \E j \in 0..(height - 1) :
        \/ height - 1 = 0
        \/ \E i \in 0..(width - 1) : width - 1 = 0

unicode_moon(illum_frac, waxing, width, height) ==
    IF RaisesZeroDivision(width, height)
    THEN [raised |-> ZeroDivisionError, value |-> <<>>]
    ELSE [raised |-> "none",
          value  |-> JoinLines([r \in 1..Max(0, height) |->
                                   RowChars(r - 1, illum_frac, waxing, width, height)])]

(***************************************************************************)
(* State                                                                   *)
(***************************************************************************)
VARIABLES
    entry,        \* the function that was called
    pc,           \* where its execution stands
    exc,          \* the exception that ended it, "none" when there is none
    args,         \* the arguments of a call of one of the three pure functions
    locals,       \* moon_phase_name: the reduced age a
    ret,          \* the value a pure function returned
    age,          \* main: <<>> is None, <<v>> the value v
    phase,        \* main
    illum_frac,   \* main, in thousandths
    waxing,       \* main
    astro_dawn,   \* main: <<>> is None, <<"time">> a datetime
    astro_dusk,   \* main
    moonrise,     \* main
    moonset,      \* main
    illum_lookup, \* main: how moon.illumination ended
    printed       \* main: what was written to standard output

callVars == <<args, locals, ret>>

mainVars == <<age, phase, illum_frac, waxing, astro_dawn, astro_dusk,
              moonrise, moonset, illum_lookup, printed>>

vars == <<entry, pc, exc, callVars, mainVars>>

NoCall ==
    /\ args = <<>>
    /\ locals = <<>>
    /\ ret = <<>>

NoMain ==
    /\ age = <<>>
    /\ phase = "unset"
    /\ illum_frac = 0
    /\ waxing = FALSE
    /\ astro_dawn = <<>>
    /\ astro_dusk = <<>>
    /\ moonrise = <<>>
    /\ moonset = <<>>
    /\ illum_lookup = "unset"
    /\ printed = <<>>

(***************************************************************************)
(* A call of moon_phase_name.  The ages tried: every threshold of the      *)
(* chain, the ends of the cycle and sample ages, each also one 10^-8 day   *)
(* below and above, shifted by up to MaxPeriods synodic months either way. *)
(***************************************************************************)
Landmarks ==
    {Dec(d, 0) : d \in {0, 1, 6, 8, 13, 16, 21, 23, 29}}
        \cup {Dec(0, 50000000), Dec(7, 0), Dec(14, 50000000), Dec(22, 0),
              Dec(3, 0), Dec(10, 0), Dec(18, 0), Dec(26, 0),
              DivSmall(SYNODIC_MONTH, 2)}

Nudges == {Neg(Dec(0, 1)), Zero, Dec(0, 1)}

ClassifierAges ==
    {Add(Add(l, n), Times(k, SYNODIC_MONTH)) :
        l \in Landmarks, n \in Nudges, k \in (0 - MaxPeriods)..MaxPeriods}

InitClassify ==
    /\ entry = "moon_phase_name"
    /\ pc = "call"
    /\ exc = "none"
    /\ args \in [age_days : ClassifierAges]
    /\ locals = <<>>
    /\ ret = <<>>
    /\ NoMain

Classify ==
    /\ entry = "moon_phase_name"
    /\ pc = "call"
    /\ locals' = [a |-> PyMod(args.age_days, SYNODIC_MONTH)]
    /\ ret' = PhaseOf(locals'.a)
    /\ pc' = "return"
    /\ UNCHANGED <<entry, exc, args, mainVars>>

NextClassify == Classify

SpecClassify == InitClassify /\ [][NextClassify]_vars

(***************************************************************************)
(* A call of moon_illumination_pct                                         *)
(***************************************************************************)
ApproximatorAges == {Times(k, DivSmall(SYNODIC_MONTH, 12)) : k \in RationalTurns}

InitApproximate ==
    /\ entry = "moon_illumination_pct"
    /\ pc = "call"
    /\ exc = "none"
    /\ args \in [age_days : ApproximatorAges]
    /\ locals = <<>>
    /\ ret = <<>>
    /\ NoMain

Approximate ==
    /\ entry = "moon_illumination_pct"
    /\ pc = "call"
    /\ ret' = moon_illumination_pct(args.age_days)
    /\ pc' = "return"
    /\ UNCHANGED <<entry, exc, args, locals, mainVars>>

NextApproximate == Approximate

SpecApproximate == InitApproximate /\ [][NextApproximate]_vars

(***************************************************************************)
(* A call of unicode_moon                                                  *)
(***************************************************************************)
MaxDim == 6

IllumInputs == {25 * n : n \in (0 - 2)..42}

Dims == (0 - 1)..MaxDim

InitRender ==
    /\ entry = "unicode_moon"
    /\ pc = "call"
    /\ exc = "none"
    /\ args \in [illum_frac : IllumInputs, waxing : BOOLEAN,
                 width : Dims, height : Dims]
    /\ locals = <<>>
    /\ ret = <<>>
    /\ NoMain

Render ==
    /\ entry = "unicode_moon"
    /\ pc = "call"
    /\ LET r == unicode_moon(args.illum_frac, args.waxing, args.width, args.height)
       IN  /\ exc' = r.raised
           /\ ret' = r.value
           /\ pc' = IF r.raised = "none" THEN "return" ELSE "raised"
    /\ UNCHANGED <<entry, args, locals, mainVars>>

NextRender == Render

SpecRender == InitRender /\ [][NextRender]_vars
(***************************************************************************)
(* main.  The ephemeris collaborator (astral) is the environment: each     *)
(* lookup returns a value, returns None, or raises.  An exception that no  *)
(* handler catches ends the run at pc = "crashed".                         *)
(***************************************************************************)
None == <<>>

Some(v) == <<v>>

MaxMainTwelfths == 18

\* The lunar ages moon.phase may return, in twelfths of a synodic month
\* (negative ages and ages beyond one month included).
MainAges ==
    {Times(k, DivSmall(SYNODIC_MONTH, 12)) :
        k \in {n \in (0 - 6)..MaxMainTwelfths : n \in RationalTurns}}

\* The fractions moon.illumination may return, in thousandths.
CollaboratorIllumination == {0, 420, 1000}

Lookups == {Some("time"), None}

InitMain ==
    /\ entry = "main"
    /\ pc = "age"
    /\ exc = "none"
    /\ NoCall
    /\ NoMain

\* age = moon.phase(today_local)
FetchAge ==
    /\ entry = "main"
    /\ pc = "age"
    /\ \/ \E v \in MainAges \cup {None} :
             /\ age' = (IF v = None THEN None ELSE Some(v))
             /\ pc' = "phase"
             /\ UNCHANGED exc
       \/ /\ exc' = "Exception"
          /\ pc' = "crashed"
          /\ UNCHANGED age
    /\ UNCHANGED <<entry, callVars, phase, illum_frac, waxing, astro_dawn,
                   astro_dusk, moonrise, moonset, illum_lookup, printed>>

\* phase = moon_phase_name(age): None % SYNODIC_MONTH raises TypeError
NamePhase ==
    /\ entry = "main"
    /\ pc = "phase"
    /\ IF age = None
       THEN /\ exc' = "TypeError"
            /\ pc' = "crashed"
            /\ UNCHANGED phase
       ELSE /\ phase' = moon_phase_name(age[1])
            /\ pc' = "illumination"
            /\ UNCHANGED exc
    /\ UNCHANGED <<entry, callVars, age, illum_frac, waxing, astro_dawn,
                   astro_dusk, moonrise, moonset, illum_lookup, printed>>

\* try: illum_frac = float(moon.illumination(today_local))
\* except Exception: illum_frac = moon_illumination_pct(age) / 100.0
\* (a None result makes float() raise TypeError, which the handler catches)
FetchIllumination ==
    /\ entry = "main"
    /\ pc = "illumination"
    /\ \/ \E v \in CollaboratorIllumination :
             /\ illum_frac' = v
             /\ illum_lookup' = "returned"
       \/ /\ illum_frac' = moon_illumination_pct(age[1]) \div 100
          /\ illum_lookup' = "failed"
    /\ pc' = "waxing"
    /\ UNCHANGED <<entry, exc, callVars, age, phase, waxing, astro_dawn,
                   astro_dusk, moonrise, moonset, printed>>

\* waxing = age < (SYNODIC_MONTH / 2.0)
SetWaxing ==
    /\ entry = "main"
    /\ pc = "waxing"
    /\ waxing' = Less(age[1], DivSmall(SYNODIC_MONTH, 2))
    /\ pc' = "dawn"
    /\ UNCHANGED <<entry, exc, callVars, age, phase, illum_frac, astro_dawn,
                   astro_dusk, moonrise, moonset, illum_lookup, printed>>

\* astro_dawn = dawn(...)
FetchDawn ==
    /\ entry = "main"
    /\ pc = "dawn"
    /\ \/ \E v \in Lookups :
             /\ astro_dawn' = v
             /\ pc' = "dusk"
             /\ UNCHANGED exc
       \/ /\ exc' = "ValueError"
          /\ pc' = "crashed"
          /\ UNCHANGED astro_dawn
    /\ UNCHANGED <<entry, callVars, age, phase, illum_frac, waxing,
                   astro_dusk, moonrise, moonset, illum_lookup, printed>>

\* astro_dusk = dusk(...)
FetchDusk ==
    /\ entry = "main"
    /\ pc = "dusk"
    /\ \/ \E v \in Lookups :
             /\ astro_dusk' = v
             /\ pc' = "moonrise"
             /\ UNCHANGED exc
       \/ /\ exc' = "ValueError"
          /\ pc' = "crashed"
          /\ UNCHANGED astro_dusk
    /\ UNCHANGED <<entry, callVars, age, phase, illum_frac, waxing,
                   astro_dawn, moonrise, moonset, illum_lookup, printed>>

\* moonrise = moon.moonrise(...)
FetchMoonrise ==
    /\ entry = "main"
    /\ pc = "moonrise"
    /\ \/ \E v \in Lookups :
             /\ moonrise' = v
             /\ pc' = "moonset"
             /\ UNCHANGED exc
       \/ /\ exc' = "ValueError"
          /\ pc' = "crashed"
          /\ UNCHANGED moonrise
    /\ UNCHANGED <<entry, callVars, age, phase, illum_frac, waxing,
                   astro_dawn, astro_dusk, moonset, illum_lookup, printed>>

\* moonset = moon.moonset(...)
FetchMoonset ==
    /\ entry = "main"
    /\ pc = "moonset"
    /\ \/ \E v \in Lookups :
             /\ moonset' = v
             /\ pc' = "output"
             /\ UNCHANGED exc
       \/ /\ exc' = "ValueError"
          /\ pc' = "crashed"
          /\ UNCHANGED moonset
    /\ UNCHANGED <<entry, callVars, age, phase, illum_frac, waxing,
                   astro_dawn, astro_dusk, moonrise, illum_lookup, printed>>

\* x.strftime(...) if x else 'N/A'
Shown(x) == IF x = None THEN "N/A" ELSE x[1]

\* The print statements: the grid, the phase, the illumination in percent
\* (illum_pct = illum_frac * 100.0, here in tenths of a percent) and the
\* four events, dusk before dawn.
Output ==
    /\ entry = "main"
    /\ pc = "output"
    /\ printed' =
           [grid         |-> unicode_moon(illum_frac, waxing,
                                          DefaultWidth, DefaultHeight).value,
            phase        |-> phase,
            illumination |-> illum_frac,
            dusk         |-> Shown(astro_dusk),
            dawn         |-> Shown(astro_dawn),
            moonrise     |-> Shown(moonrise),
            moonset      |-> Shown(moonset)]
    /\ pc' = "input"
    /\ UNCHANGED <<entry, exc, callVars, age, phase, illum_frac, waxing,
                   astro_dawn, astro_dusk, moonrise, moonset, illum_lookup>>

\* input("")
WaitInput ==
    /\ entry = "main"
    /\ pc = "input"
    /\ pc' = "done"
    /\ UNCHANGED <<entry, exc, callVars, mainVars>>

NextMain ==
    \/ FetchAge
    \/ NamePhase
    \/ FetchIllumination
    \/ SetWaxing
    \/ FetchDawn
    \/ FetchDusk
    \/ FetchMoonrise
    \/ FetchMoonset
    \/ Output
    \/ WaitInput

SpecMain == InitMain /\ [][NextMain]_vars

(***************************************************************************)
(* The whole program: any one of the four entry points is called.          *)
(***************************************************************************)
Init == InitClassify \/ InitApproximate \/ InitRender \/ InitMain

Next == NextClassify \/ NextApproximate \/ NextRender \/ NextMain

Spec == Init /\ [][Next]_vars
(***************************************************************************)
(* Properties of unicode_moon                                              *)
(***************************************************************************)
Returned(f) == entry = f /\ pc = "return"

Finished(f) == entry = f /\ pc \in {"return", "raised"}

\* The character of row j, column i (both from 0) of a returned grid.
At(grid, width, j, i) == grid[j * (width + 1) + i + 1]

\* C1: every call of unicode_moon with width < 2 or height < 2 ends in an
\* error; none returns a grid normally.
C1_InvalidDimensionsRaise ==
    (Finished("unicode_moon") /\ (args.width < 2 \/ args.height < 2))
        => (pc = "raised" /\ exc # "none")

\* C2: for width >= 2 and height >= 2 the returned string is exactly height
\* rows of exactly width glyphs, one glyph per cell whether inside or
\* outside the disc, the rows separated by single line breaks and nothing
\* between the glyphs.
C2_GridShape ==
    (Finished("unicode_moon") /\ args.width >= 2 /\ args.height >= 2)
        => /\ pc = "return"
           /\ Len(ret) = args.height * args.width + (args.height - 1)
           /\ \A p \in 1..Len(ret) :
                  IF p % (args.width + 1) = 0
                  THEN ret[p] = NEWLINE
                  ELSE ret[p] \in Glyphs

\* A returned grid of valid size, for a fraction within [0,1], that has
\* cells outside the disc and cells inside it.
C2_Witness ==
    /\ Returned("unicode_moon")
    /\ args.width >= 2 /\ args.height >= 2
    /\ args.illum_frac >= 0 /\ args.illum_frac <= 1000
    /\ \E p, q \in 1..Len(ret) : ret[p] = OUT /\ ret[q] \in {FULL, DARK}

\* C6: for width >= 2 and height >= 2, the grid of illum_frac = 0.0 with
\* waxing = true holds no fully-lit glyph, and the grid of illum_frac = 1.0
\* holds no fully-dark glyph for either waxing value, cells on the
\* terminator at x = -1 or x = +1 included.
C6_NewAndFullMoon ==
    (Returned("unicode_moon") /\ args.width >= 2 /\ args.height >= 2)
        => /\ (args.illum_frac = 0 /\ args.waxing)
                  => \A p \in 1..Len(ret) : ret[p] # FULL
           /\ args.illum_frac = 1000
                  => \A p \in 1..Len(ret) : ret[p] # DARK

\* A full moon whose middle row has an inside cell exactly on the terminator
\* (x = -1 for waxing): it gets the soft edge glyph.
C6_Witness ==
    /\ Returned("unicode_moon")
    /\ args.illum_frac = 1000 /\ args.waxing
    /\ args.width = 3 /\ args.height = 3
    /\ At(ret, 3, 1, 0) = EDGE1
    /\ At(ret, 3, 1, 2) = FULL

PhaseNames ==
    {"New Moon", "Waxing Crescent", "First Quarter", "Waxing Gibbous",
     "Full Moon", "Waning Gibbous", "Last Quarter", "Waning Crescent"}

\* The threshold table of the specification: <<lower bound (inclusive),
\* upper bound (exclusive), phase>>.
ThresholdTable ==
    {<<Dec(0, 0), Dec(1, 0), "New Moon">>,
     <<Dec(1, 0), Dec(6, 0), "Waxing Crescent">>,
     <<Dec(6, 0), Dec(8, 0), "First Quarter">>,
     <<Dec(8, 0), Dec(13, 0), "Waxing Gibbous">>,
     <<Dec(13, 0), Dec(16, 0), "Full Moon">>,
     <<Dec(16, 0), Dec(21, 0), "Waning Gibbous">>,
     <<Dec(21, 0), Dec(23, 0), "Last Quarter">>,
     <<Dec(23, 0), Dec(29, 0), "Waning Crescent">>,
     <<Dec(29, 0), Dec(29, 53058867), "New Moon">>}

\* age mod 29.53058867 as mathematics defines it: the one number of
\* [0, 29.53058867) that differs from age by a whole number of months.
Residue(x) ==
    CHOOSE r \in {Sub(x, Times(k, Dec(29, 53058867))) :
                     k \in (0 - 2 * MaxPeriods - 2)..(2 * MaxPeriods + 2)} :
        Leq(Zero, r) /\ Less(r, Dec(29, 53058867))

CyclePoints == {g \in ClassifierAges : Leq(Zero, g) /\ Less(g, SYNODIC_MONTH)}

\* C5 as stated: the ages of [0, 29.53058867) that get one phase name form
\* a single contiguous interval, for each of the eight names: an age
\* between two ages of the same phase has that phase too.
C5_OneIntervalPerName ==
    Returned("moon_phase_name")
        => \A x, z \in CyclePoints :
               (Less(x, locals.a) /\ Less(locals.a, z) /\ PhaseOf(x) = PhaseOf(z))
                   => ret = PhaseOf(x)

\* C5 amended: every age of [0, 29.53058867) gets exactly one of the eight
\* names; the ages of each name other than New Moon form a single
\* contiguous half-open interval; New Moon is the two intervals [0, 1) and
\* [29, 29.53058867), the first and the last of nine, adjacent only across
\* the wrap of the cycle.
C5_NineIntervalsEightNames ==
    Returned("moon_phase_name")
        => /\ ret \in PhaseNames
           /\ \A n \in PhaseNames : \E g \in CyclePoints : PhaseOf(g) = n
           /\ \A x, z \in CyclePoints :
                  (Less(x, locals.a) /\ Less(locals.a, z)
                      /\ PhaseOf(x) = PhaseOf(z) /\ PhaseOf(x) # "New Moon")
                      => ret = PhaseOf(x)
           /\ ret = "New Moon"
                  <=> (Less(locals.a, Dec(1, 0)) \/ Leq(Dec(29, 0), locals.a))

\* An age of the last interval, [29, 29.53058867), named New Moon.
C5_Witness ==
    /\ Returned("moon_phase_name")
    /\ Leq(Dec(29, 0), locals.a)
    /\ Less(locals.a, SYNODIC_MONTH)
    /\ ret = "New Moon"

C9_NoLookupFailureIsFatal ==
    entry = "main"
        => /\ pc # "crashed"
           /\ (illum_lookup = "failed" /\ age # None)
                  => 100 * illum_frac = moon_illumination_pct(age[1])
           /\ pc = "done"
                  => /\ Len(printed.grid)
                            = DefaultHeight * DefaultWidth + DefaultHeight - 1
                     /\ printed.phase \in PhaseNames
                     /\ (astro_dawn = None) <=> (printed.dawn = "N/A")
                     /\ (astro_dusk = None) <=> (printed.dusk = "N/A")
                     /\ (moonrise = None) <=> (printed.moonrise = "N/A")
                     /\ (moonset = None) <=> (printed.moonset = "N/A")

\* C10: the waxing flag main passes to unicode_moon agrees with the phase
\* name it derives from the same age, whatever age the collaborator
\* returns: the flag is true exactly when age mod 29.53058867 is below half
\* a synodic month, so the three waxing phases come with waxing = true and
\* the three waning phases with waxing = false.
C10_WaxingAgreesWithPhase ==
    (entry = "main" /\ pc \in {"dawn", "dusk", "moonrise", "moonset",
                               "output", "input", "done"})
        => /\ waxing <=> Less(Residue(age[1]), DivSmall(SYNODIC_MONTH, 2))
           /\ phase \in {"Waxing Crescent", "First Quarter", "Waxing Gibbous"}
                  => waxing
           /\ phase \in {"Waning Gibbous", "Last Quarter", "Waning Crescent"}
                  => ~waxing
====
